---- MODULE Spec2Model ----
(***************************************************************************)
(* Model of BlockGrid (src/src/BlockGrid.js): a width x height grid of     *)
(* Block objects, indexed grid[x][y] with y = 0 the bottom row.  Clicking  *)
(* a block removes the 4-connected group of its colour and lets the        *)
(* blocks above fall.  JavaScript arrays are functions on 0..n-1; the      *)
(* colour null is the string "null".                                       *)
(***************************************************************************)
EXTENDS Integers, Sequences, FiniteSets, TLC

VARIABLES
  args,               \* the arguments of new BlockGrid(...)
  width,              \* this.width
  height,             \* this.height
  grid,               \* this.grid : grid[x][y] is a Block [x, y, colour]
  display,            \* children of the element with id 'gridEl'
  pc,                 \* position in the program / in the blockClicked chain
  block,              \* blockClicked: the destructured { x, y, colour }
  removedBlockArray,  \* blockClicked: const removedBlockArray
  before,             \* history: this.grid when blockClicked was entered
  afterRemove,        \* history: this.grid when removeConnectedBlocks returned
  reclick,            \* history: the clicked cell was emptied by the click before
  loop                \* the locals of the loop that is running, if one is

vars == <<args, width, height, grid, display, pc, block, removedBlockArray,
          before, afterRemove, reclick, loop>>

----------------------------------------------------------------------------
(* Bounds of the model.                                                    *)
MaxWidth == 3
MaxHeight == 4
MaxCells == 6
NumColours == 2

(* Program constants.                                                      *)
DefaultWidth == 10
DefaultHeight == 10

null == "null"
Palette == <<"red", "blue", "green", "yellow">>
COLOURS == {Palette[i] : i \in 1..NumColours}

----------------------------------------------------------------------------
(* JavaScript arrays.                                                      *)
Length(arr) == Cardinality(DOMAIN arr)
EmptyArray == [i \in {} |-> null]
Push(arr, e) == [i \in 0..Length(arr) |-> IF i \in DOMAIN arr THEN arr[i] ELSE e]

(* new Block(x, y): coordinates and a colour chosen by the block itself.   *)
Block(x, y, colour) == [x |-> x, y |-> y, colour |-> colour]

----------------------------------------------------------------------------
(* constructor(width = 10, height = 10)                                    *)
RECURSIVE ConstructColumn_Transposed(_, _, _, _, _)
ConstructColumn_Transposed(x, y, h, column, pick) ==
  IF y < h
    THEN ConstructColumn_Transposed(x, y + 1, h,
                                    Push(column, Block(y, x, pick[x][y])), pick)
    ELSE column

RECURSIVE ConstructColumn(_, _, _, _, _)
ConstructColumn(x, y, h, column, pick) ==
  IF y < h
    THEN ConstructColumn(x, y + 1, h, Push(column, Block(x, y, pick[x][y])), pick)
    ELSE column

RECURSIVE ConstructGrid(_, _, _, _, _)
ConstructGrid(x, w, h, g, pick) ==
  IF x < w
    THEN ConstructGrid(x + 1, w, h,
                       Push(g, ConstructColumn(x, 0, h, EmptyArray, pick)), pick)
    ELSE g

constructor(arguments, pick) ==
  LET w == IF Len(arguments) >= 1 THEN arguments[1] ELSE DefaultWidth
      h == IF Len(arguments) >= 2 THEN arguments[2] ELSE DefaultHeight
  IN  [width |-> w, height |-> h, grid |-> ConstructGrid(0, w, h, EmptyArray, pick)]

----------------------------------------------------------------------------
(* The document: ids, style.background and getElementById.                 *)
ColumnId(x) == "col_" \o ToString(x)
BlockId(x, y) == "block_" \o ToString(x) \o "x" \o ToString(y)

(* element.style.background = colour: null clears the property.            *)
StyleBackground(colour) == IF colour = null THEN "" ELSE colour

(* All block elements of the container, in document order.                 *)
RECURSIVE BlockElements(_)
BlockElements(children) ==
  IF children = <<>> THEN <<>>
  ELSE Head(children).children \o BlockElements(Tail(children))

NoElement == [id |-> "", background |-> "", x |-> -1, y |-> -1]

(* document.getElementById(id): the first element with that id.            *)
getElementById(children, id) ==
  LET els == BlockElements(children)
      hits == {i \in 1..Len(els) : els[i].id = id}
  IN  IF hits = {} THEN NoElement
      ELSE els[CHOOSE i \in hits : \A j \in hits : i <= j]

(* render(element): appends one column element per x, blocks from the top. *)
RECURSIVE RenderColumn(_, _, _, _)
RenderColumn(g, x, y, children) ==
  IF y >= 0
    THEN RenderColumn(g, x, y - 1,
           Append(children, [id |-> BlockId(x, y),
                             background |-> StyleBackground(g[x][y].colour),
                             x |-> x, y |-> y]))
    ELSE children

RECURSIVE RenderFrom(_, _, _)
RenderFrom(g, x, children) ==
  IF x < width
    THEN RenderFrom(g, x + 1,
           Append(children, [id |-> ColumnId(x),
                             children |-> RenderColumn(g, x, height - 1, <<>>)]))
    ELSE children

render(g, children) == RenderFrom(g, 0, children)

(* resetGrid(): innerHTML = ''                                             *)
resetGrid(children) == <<>>

----------------------------------------------------------------------------
(* removeConnectedBlocks and its helpers.                                  *)
directionsArray_Diagonals ==
  << <<0, 1>>, <<0, -1>>, <<1, 0>>, <<-1, 0>>,
     <<1, 1>>, <<1, -1>>, <<-1, 1>>, <<-1, -1>> >>

directionsArray_NoLeft == << <<0, 1>>, <<0, -1>>, <<1, 0>> >>

directionsArray == << <<0, 1>>, <<0, -1>>, <<1, 0>>, <<-1, 0>> >>

withinBoundaries_Swapped(row, column) ==
  row >= 0 /\ column >= 0 /\ row < height /\ column < width

withinBoundaries(row, column) ==
  row >= 0 /\ column >= 0 /\ row < width /\ column < height

checkBlockColour_AnyBlock(g, row, column, colour) == g[row][column].colour # null

checkBlockColour(g, row, column, colour) == g[row][column].colour = colour

removeBlock_Keep(g, row, column) == g

removeBlock(g, row, column) == [g EXCEPT ![row][column].colour = null]

ParsedKey_Sum(row, column) == ToString(row + column)

(* the template string `${row},${column}` used as the key of parsedBlocks  *)
ParsedKey(row, column) == ToString(row) \o "," \o ToString(column)

(* One iteration of the while loop over adjacentBlocks.                    *)
TraverseStep(s, colour) ==
  LET n == Len(s.adjacentBlocks)
      row == s.adjacentBlocks[n][1]
      column == s.adjacentBlocks[n][2]
      popped == SubSeq(s.adjacentBlocks, 1, n - 1)
      key == ParsedKey(row, column)
  IN  IF withinBoundaries(row, column) /\ key \notin s.parsedBlocks
        THEN IF checkBlockColour(s.grid, row, column, colour)
               THEN [grid |-> removeBlock(s.grid, row, column),
                     adjacentBlocks |->
                       popped \o [i \in 1..Len(directionsArray) |->
                                    <<row + directionsArray[i][1],
                                      column + directionsArray[i][2]>>],
                     parsedBlocks |-> s.parsedBlocks \cup {key},
                     removedBlockArray |-> Append(s.removedBlockArray, <<row, column>>)]
               ELSE [s EXCEPT !.adjacentBlocks = popped,
                              !.parsedBlocks = s.parsedBlocks \cup {key}]
        ELSE [s EXCEPT !.adjacentBlocks = popped]

RECURSIVE TraverseLoop(_, _)
TraverseLoop(s, colour) ==
  IF Len(s.adjacentBlocks) > 0 THEN TraverseLoop(TraverseStep(s, colour), colour) ELSE s

removeConnectedBlocks(g, x, y, colour, removed) ==
  TraverseLoop([grid |-> g,
                adjacentBlocks |-> << <<x, y>> >>,
                parsedBlocks |-> {},
                removedBlockArray |-> removed], colour)

----------------------------------------------------------------------------
(* shiftBlocksDownward and its helpers.                                    *)
blockBelowIsEmpty(g, x, y) == g[x][y].colour = null /\ (y + 1) \in DOMAIN g[x]

moveBlockDown_MoveBlock(g, x, y) ==
  [g EXCEPT ![x][y] = g[x][y + 1], ![x][y + 1] = [g[x][y] EXCEPT !.colour = null]]

moveBlockDown_NoClear(g, x, y) == [g EXCEPT ![x][y].colour = g[x][y + 1].colour]

moveBlockDown(g, x, y) ==
  [g EXCEPT ![x][y].colour = g[x][y + 1].colour, ![x][y + 1].colour = null]

ShiftWhile_Once(g, x, currentRow) ==
  IF blockBelowIsEmpty(g, x, currentRow) THEN moveBlockDown(g, x, currentRow) ELSE g

RECURSIVE ShiftWhile(_, _, _)
ShiftWhile(g, x, currentRow) ==
  IF blockBelowIsEmpty(g, x, currentRow)
    THEN ShiftWhile(moveBlockDown(g, x, currentRow), x, currentRow + 1)
    ELSE g

RECURSIVE ShiftColumn_BottomUp(_, _, _)
ShiftColumn_BottomUp(g, x, yPos) ==
  IF yPos >= 0
    THEN ShiftColumn_BottomUp(ShiftWhile(g, x, height - 1 - yPos), x, yPos - 1)
    ELSE g

RECURSIVE ShiftColumn(_, _, _)
ShiftColumn(g, x, yPos) ==
  IF yPos >= 0 THEN ShiftColumn(ShiftWhile(g, x, yPos), x, yPos - 1) ELSE g

RECURSIVE ShiftForEach_AllColumns(_, _, _)
ShiftForEach_AllColumns(g, removed, i) ==
  IF i <= width
    THEN ShiftForEach_AllColumns(ShiftColumn(g, i - 1, height - 1), removed, i + 1)
    ELSE g

RECURSIVE ShiftForEach(_, _, _)
ShiftForEach(g, removed, i) ==
  IF i <= Len(removed)
    THEN ShiftForEach(ShiftColumn(g, removed[i][1], height - 1), removed, i + 1)
    ELSE g

shiftBlocksDownward(g, removed) == ShiftForEach(g, removed, 1)

----------------------------------------------------------------------------
(* The chain of blockClicked: what runs after each call returns.           *)
AfterClick_NoTest(colour) == "removeConnectedBlocks"

AfterClick(colour) == IF colour # null THEN "removeConnectedBlocks" ELSE "idle"
AfterRemoveConnectedBlocks_RenderFirst == "render"

AfterRemoveConnectedBlocks == "shiftBlocksDownward"
AfterShiftBlocksDownward_NoReset == "render"

AfterShiftBlocksDownward == "resetGrid"
AfterResetGrid == "render"
AfterRender == "idle"

NoBlock == [x |-> -1, y |-> -1, colour |-> null]

(* no loop of removeConnectedBlocks or shiftBlocksDownward is running *)
NoLoop == [kind |-> "none"]

(* new BlockGrid(w, h): every block takes one of COLOURS.                  *)
Init ==
  \E w \in 1..MaxWidth, h \in 1..MaxHeight :
    /\ w * h <= MaxCells
    /\ \E pick \in [0..(w - 1) -> [0..(h - 1) -> COLOURS]] :
         LET o == constructor(<<w, h>>, pick)
         IN  /\ args = <<w, h>>
             /\ width = o.width
             /\ height = o.height
             /\ grid = o.grid
             /\ before = o.grid
             /\ afterRemove = o.grid
    /\ display = <<>>
    /\ pc = "constructed"
    /\ block = NoBlock
    /\ removedBlockArray = <<>>
    /\ reclick = FALSE
    /\ loop = NoLoop

(* setBlockArrayColour(blockGrid, [[x, y]], colour), before the grid is    *)
(* rendered.                                                               *)
SetBlockArrayColour ==
  /\ pc = "constructed"
  /\ \E x \in 0..(width - 1), y \in 0..(height - 1), colour \in COLOURS \cup {null} :
       /\ grid[x][y].colour # colour
       /\ grid' = [grid EXCEPT ![x][y].colour = colour]
  /\ before' = grid'
  /\ afterRemove' = grid'
  /\ UNCHANGED <<loop, args, width, height, display, pc, block, removedBlockArray, reclick>>

(* blockGrid.render() after construction.                                  *)
FirstRender ==
  /\ pc = "constructed"
  /\ display' = render(grid, display)
  /\ pc' = "idle"
  /\ UNCHANGED <<loop, args, width, height, grid, block, removedBlockArray, before,
                 afterRemove, reclick>>

(* A click on the element block_XxY: blockClicked(evt, grid[x][y]) up to   *)
(* the test of the colour.                                                 *)
BlockClicked ==
  /\ pc = "idle"
  /\ \E x \in 0..(width - 1), y \in 0..(height - 1) :
       LET el == getElementById(display, BlockId(x, y))
           b == grid[el.x][el.y]
       IN  /\ el # NoElement
           /\ block' = b
           /\ pc' = AfterClick(b.colour)
           /\ reclick' = (b.colour = null /\ before[b.x][b.y].colour # null)
  /\ removedBlockArray' = <<>>
  /\ before' = grid
  /\ afterRemove' = grid
  /\ UNCHANGED <<loop, args, width, height, grid, display>>

RemoveConnectedBlocks ==
  /\ pc = "removeConnectedBlocks"
  /\ LET s == removeConnectedBlocks(grid, block.x, block.y, block.colour,
                                    removedBlockArray)
     IN  /\ grid' = s.grid
         /\ removedBlockArray' = s.removedBlockArray
         /\ afterRemove' = s.grid
  /\ pc' = AfterRemoveConnectedBlocks
  /\ UNCHANGED <<loop, args, width, height, display, block, before, reclick>>

ShiftBlocksDownward ==
  /\ pc = "shiftBlocksDownward"
  /\ grid' = shiftBlocksDownward(grid, removedBlockArray)
  /\ pc' = AfterShiftBlocksDownward
  /\ UNCHANGED <<loop, args, width, height, display, block, removedBlockArray, before,
                 afterRemove, reclick>>

ResetGrid ==
  /\ pc = "resetGrid"
  /\ display' = resetGrid(display)
  /\ pc' = AfterResetGrid
  /\ UNCHANGED <<loop, args, width, height, grid, block, removedBlockArray, before,
                 afterRemove, reclick>>

Render ==
  /\ pc = "render"
  /\ display' = render(grid, display)
  /\ pc' = AfterRender
  /\ UNCHANGED <<loop, args, width, height, grid, block, removedBlockArray, before,
                 afterRemove, reclick>>

Next ==
  \/ SetBlockArrayColour
  \/ FirstRender
  \/ BlockClicked
  \/ RemoveConnectedBlocks
  \/ ShiftBlocksDownward
  \/ ResetGrid
  \/ Render

Spec == Init /\ [][Next]_vars

----------------------------------------------------------------------------
(* Vocabulary of the properties.                                           *)
Cells == (0..(width - 1)) \X (0..(height - 1))

ColourAt(g, c) == g[c[1]][c[2]].colour

Abs(n) == IF n < 0 THEN -n ELSE n

(* up/down/left/right neighbours, no diagonals *)
Adjacent4(p, q) == Abs(p[1] - q[1]) + Abs(p[2] - q[2]) = 1

RECURSIVE Grow(_, _, _)
Grow(S, g, colour) ==
  LET more == {q \in Cells : /\ ColourAt(g, q) = colour
                             /\ \E p \in S : Adjacent4(p, q)}
  IN  IF more \subseteq S THEN S ELSE Grow(S \cup more, g, colour)

(* the 4-connected component of the colour of cell c that contains c *)
Component(g, c) == Grow({c}, g, ColourAt(g, c))

Removed == {removedBlockArray[i] : i \in 1..Len(removedBlockArray)}

Seed == <<block.x, block.y>>

(* a click on a non-empty cell has run to its end *)
Completed == pc = "idle" /\ block.colour # null

(* removeConnectedBlocks has returned *)
Traversed == pc \in {"shiftBlocksDownward", "resetGrid", "render"} \/ Completed

(* shiftBlocksDownward has returned *)
Shifted == pc \in {"resetGrid", "render"} \/ Completed

AffectedColumns == {c[1] : c \in Removed}

----------------------------------------------------------------------------
(* The two loops of a click, one iteration at a time.  While a loop runs,  *)
(* loop holds its locals and, as history, the cells whose colour the last  *)
(* iteration read or wrote (touched) and how often each cell was added to  *)
(* parsedBlocks, colour-checked and cleared (adds, checks, clears).        *)
InGrid(row, column) == row \in DOMAIN grid /\ column \in DOMAIN grid[row]

parsedBlocksHas_Never(parsedBlocks, row, column) == FALSE

(* parsedBlocks.has(`${row},${column}`) *)
parsedBlocksHas(parsedBlocks, row, column) == ParsedKey(row, column) \in parsedBlocks

NextRow_Stuck(currentRow) == currentRow

(* currentRow++ *)
NextRow(currentRow) == currentRow + 1

Zero == [c \in Cells |-> 0]

Bump(count, row, column) == [count EXCEPT ![<<row, column>>] = @ + 1]

(* an access to grid[row][column].colour outside the arrays throws *)
TypeError ==
  /\ pc' = "TypeError"
  /\ UNCHANGED <<args, width, height, grid, display, block, removedBlockArray,
                 before, afterRemove, reclick>>

(* removeConnectedBlocks is entered: adjacentBlocks.push([x, y]) *)
TraverseBegin ==
  /\ pc = "removeConnectedBlocks"
  /\ loop = NoLoop
  /\ loop' = [kind |-> "traverse",
              adjacentBlocks |-> << <<block.x, block.y>> >>,
              parsedBlocks |-> {},
              touched |-> {},
              adds |-> Zero, checks |-> Zero, clears |-> Zero]
  /\ UNCHANGED <<args, width, height, grid, display, pc, block, removedBlockArray,
                 before, afterRemove, reclick>>

(* one iteration of while (adjacentBlocks.length > 0) *)
TraverseIter ==
  /\ pc = "removeConnectedBlocks"
  /\ loop # NoLoop
  /\ Len(loop.adjacentBlocks) > 0
  /\ LET n == Len(loop.adjacentBlocks)
         row == loop.adjacentBlocks[n][1]
         column == loop.adjacentBlocks[n][2]
         popped == SubSeq(loop.adjacentBlocks, 1, n - 1)
     IN  IF withinBoundaries(row, column)
              /\ ~parsedBlocksHas(loop.parsedBlocks, row, column)
           THEN IF ~InGrid(row, column)
                  THEN /\ loop' = [loop EXCEPT !.touched = {<<row, column>>}]
                       /\ TypeError
                  ELSE IF checkBlockColour(grid, row, column, block.colour)
                         THEN /\ grid' = removeBlock(grid, row, column)
                              /\ removedBlockArray' =
                                   Append(removedBlockArray, <<row, column>>)
                              /\ loop' =
                                   [loop EXCEPT
                                      !.adjacentBlocks =
                                         popped \o
                                           [i \in 1..Len(directionsArray) |->
                                              <<row + directionsArray[i][1],
                                                column + directionsArray[i][2]>>],
                                      !.parsedBlocks = @ \cup {ParsedKey(row, column)},
                                      !.touched = {<<row, column>>},
                                      !.adds = Bump(@, row, column),
                                      !.checks = Bump(@, row, column),
                                      !.clears = Bump(@, row, column)]
                              /\ UNCHANGED <<args, width, height, display, pc, block,
                                             before, afterRemove, reclick>>
                         ELSE /\ loop' =
                                   [loop EXCEPT
                                      !.adjacentBlocks = popped,
                                      !.parsedBlocks = @ \cup {ParsedKey(row, column)},
                                      !.touched = {<<row, column>>},
                                      !.adds = Bump(@, row, column),
                                      !.checks = Bump(@, row, column)]
                              /\ UNCHANGED <<args, width, height, grid, display, pc,
                                             block, removedBlockArray, before,
                                             afterRemove, reclick>>
           ELSE /\ loop' = [loop EXCEPT !.adjacentBlocks = popped, !.touched = {}]
                /\ UNCHANGED <<args, width, height, grid, display, pc, block,
                               removedBlockArray, before, afterRemove, reclick>>

(* adjacentBlocks is empty: return this *)
TraverseEnd ==
  /\ pc = "removeConnectedBlocks"
  /\ loop # NoLoop
  /\ Len(loop.adjacentBlocks) = 0
  /\ afterRemove' = grid
  /\ pc' = AfterRemoveConnectedBlocks
  /\ loop' = NoLoop
  /\ UNCHANGED <<args, width, height, grid, display, block, removedBlockArray,
                 before, reclick>>

(* shiftBlocksDownward is entered: the first element of the list, the top  *)
(* row                                                                     *)
ShiftBegin ==
  /\ pc = "shiftBlocksDownward"
  /\ loop = NoLoop
  /\ loop' = [kind |-> "shift", i |-> 1, yPos |-> height - 1,
              currentRow |-> height - 1, touched |-> {}]
  /\ UNCHANGED <<args, width, height, grid, display, pc, block, removedBlockArray,
                 before, afterRemove, reclick>>

(* one test of while (this.blockBelowIsEmpty(x, currentRow)), with the     *)
(* body if it holds and the step of the enclosing loops if it does not     *)
ShiftIter ==
  /\ pc = "shiftBlocksDownward"
  /\ loop # NoLoop
  /\ loop.i <= Len(removedBlockArray)
  /\ LET x == removedBlockArray[loop.i][1]
         y == loop.currentRow
     IN  IF ~InGrid(x, y)
           THEN /\ loop' = [loop EXCEPT !.touched = {<<x, y>>}]
                /\ TypeError
           ELSE IF blockBelowIsEmpty(grid, x, y)
                  THEN IF ~InGrid(x, y + 1)
                         THEN /\ loop' = [loop EXCEPT !.touched = {<<x, y>>, <<x, y + 1>>}]
                              /\ TypeError
                         ELSE /\ grid' = moveBlockDown(grid, x, y)
                              /\ loop' = [loop EXCEPT
                                            !.currentRow = NextRow(y),
                                            !.touched = {<<x, y>>, <<x, y + 1>>}]
                              /\ UNCHANGED <<args, width, height, display, pc, block,
                                             removedBlockArray, before, afterRemove,
                                             reclick>>
                  ELSE /\ loop' =
                            IF loop.yPos - 1 >= 0
                              THEN [loop EXCEPT !.yPos = @ - 1,
                                                !.currentRow = loop.yPos - 1,
                                                !.touched = {<<x, y>>}]
                              ELSE [loop EXCEPT !.i = @ + 1,
                                                !.yPos = height - 1,
                                                !.currentRow = height - 1,
                                                !.touched = {<<x, y>>}]
                       /\ UNCHANGED <<args, width, height, grid, display, pc, block,
                                      removedBlockArray, before, afterRemove, reclick>>

(* the list is exhausted: return this *)
ShiftEnd ==
  /\ pc = "shiftBlocksDownward"
  /\ loop # NoLoop
  /\ loop.i > Len(removedBlockArray)
  /\ pc' = AfterShiftBlocksDownward
  /\ loop' = NoLoop
  /\ UNCHANGED <<args, width, height, grid, display, block, removedBlockArray,
                 before, afterRemove, reclick>>

NextSteps ==
  \/ SetBlockArrayColour
  \/ FirstRender
  \/ BlockClicked
  \/ TraverseBegin
  \/ TraverseIter
  \/ TraverseEnd
  \/ ShiftBegin
  \/ ShiftIter
  \/ ShiftEnd
  \/ ResetGrid
  \/ Render

SpecSteps == Init /\ [][NextSteps]_vars

----------------------------------------------------------------------------
(* C1: once removeConnectedBlocks(x, y, C, []) has returned for a click on *)
(* a cell of non-empty colour C, the removed list is, as a set, exactly    *)
(* the 4-connected component of colour C that contains (x, y) in the grid  *)
(* as it was before the call, and every listed cell had colour C.          *)
C1_RemovedIsComponent ==
  Traversed =>
    /\ Removed = Component(before, Seed)
    /\ \A c \in Removed : ColourAt(before, c) = block.colour

(* a component of three or more cells over two columns, next to a cell of  *)
(* the same colour that touches it only diagonally or not at all           *)
C1_Witness ==
  /\ pc = "shiftBlocksDownward"
  /\ Cardinality(Removed) >= 3
  /\ Cardinality(AffectedColumns) >= 2
  /\ \E c \in Cells \ Removed : ColourAt(before, c) = block.colour

----------------------------------------------------------------------------
(* C2: a click on a cell whose colour is null changes no colour, removes   *)
(* nothing, and starts neither compaction nor a re-render: the grid and    *)
(* the display stay as they were and the handler is back at rest.          *)
C2_EmptyClickNoOp ==
  [][(pc = "idle" /\ block'.colour = null) =>
       /\ grid' = grid
       /\ display' = display
       /\ removedBlockArray' = <<>>
       /\ pc' = "idle"]_vars

(* a second click on a coordinate that the click before had left empty *)
C2_Witness ==
  /\ pc = "idle"
  /\ block.x >= 0
  /\ block.colour = null
  /\ reclick
  /\ grid = before
  /\ \E c \in Cells : ColourAt(grid, c) # null

----------------------------------------------------------------------------
(* C10: when removeConnectedBlocks returns, before any shifting, exactly   *)
(* the cells of the seed's component are empty where they were not, and    *)
(* every other cell, same-coloured unconnected cells included, has the     *)
(* colour it had before the call.                                          *)
C10_OnlyComponentCleared ==
  pc = "shiftBlocksDownward" =>
    \A c \in Cells :
      ColourAt(grid, c) = IF c \in Component(before, Seed) THEN null
                          ELSE ColourAt(before, c)

(* a same-coloured cell outside the component is still there on return *)
C10_Witness ==
  /\ pc = "shiftBlocksDownward"
  /\ \E c \in Cells \ Component(before, Seed) :
       /\ ColourAt(before, c) = block.colour
       /\ ColourAt(grid, c) = block.colour
  /\ \E c \in Cells : ColourAt(before, c) = null

----------------------------------------------------------------------------
(* Columns as sequences of colours, bottom (y = 0) first.                  *)
RowsUp == [i \in 1..height |-> i - 1]

ColumnColours(g, x) == [i \in 1..height |-> g[x][i - 1].colour]

IsColour(colour) == colour # null

NonEmptyColours(g, x) == SelectSeq(ColumnColours(g, x), IsColour)

(* the colours of column x that were non-empty before the click and were   *)
(* not removed by it, bottom first                                         *)
SurvivorsBefore(x) ==
  LET Survives(y) == <<x, y>> \notin Removed /\ before[x][y].colour # null
      ys == SelectSeq(RowsUp, Survives)
  IN  [i \in 1..Len(ys) |-> before[x][ys[i]].colour]

(* no empty cell lies below a non-empty cell of column x *)
EmptiesOnTop(g, x) ==
  \A y \in 0..(height - 2) : g[x][y].colour = null => g[x][y + 1].colour = null

(* the number of empty cells of column x below row y *)
EmptiesBelow(g, x, y) == Cardinality({r \in 0..(y - 1) : g[x][r].colour = null})

----------------------------------------------------------------------------
(* C3: after a click on a non-empty cell, in every column that held a      *)
(* removed cell all empty cells are contiguous at the top and the colours  *)
(* that survive are in the bottom-to-top order they had before the click,  *)
(* also when the column held empty cells beforehand.                       *)
C3_ColumnsCompacted ==
  Shifted =>
    \A x \in AffectedColumns :
      /\ EmptiesOnTop(grid, x)
      /\ NonEmptyColours(grid, x) = SurvivorsBefore(x)

(* a column with a hole of its own under two survivors of different colour *)
C3_Witness ==
  /\ Completed
  /\ \E x \in AffectedColumns :
       /\ \E y \in 0..(height - 2) :
            before[x][y].colour = null /\ before[x][y + 1].colour # null
       /\ Len(SurvivorsBefore(x)) >= 2
       /\ SurvivorsBefore(x)[1] # SurvivorsBefore(x)[2]

----------------------------------------------------------------------------
(* C4 as claimed: after a complete selection no cell outside the component *)
(* of the selected cell has a colour other than the one it had before.     *)
C4_Original ==
  Completed =>
    \A c \in Cells \ Component(before, Seed) :
      ColourAt(grid, c) = ColourAt(before, c)

(* C4 as amended: after a complete selection a cell outside the component  *)
(* keeps its colour unless compaction reaches it: every cell of a column   *)
(* without a component cell, and every non-empty cell outside the          *)
(* component with no empty cell (removed or empty beforehand) below it in  *)
(* its column, has the colour it had before the selection.                 *)
C4_OutsideKeptUnlessAboveGap ==
  Completed =>
    \A c \in Cells \ Component(before, Seed) :
      \/ \A d \in Component(before, Seed) : d[1] # c[1]
      \/ /\ ColourAt(before, c) # null
         /\ \A r \in 0..(c[2] - 1) :
              <<c[1], r>> \notin Component(before, Seed) /\ before[c[1]][r].colour # null
      => ColourAt(grid, c) = ColourAt(before, c)

(* a column where a cell under the component stays and one above it moves  *)
C4_Witness ==
  /\ Completed
  /\ \E x \in AffectedColumns :
       /\ <<x, 0>> \notin Removed
       /\ before[x][0].colour # null
       /\ grid[x][0].colour = before[x][0].colour
       /\ \E y \in 1..(height - 1) :
            /\ <<x, y>> \notin Removed
            /\ before[x][y].colour # null
            /\ grid[x][y].colour # before[x][y].colour

----------------------------------------------------------------------------
(* C5: after a click on a non-empty cell, a surviving colour that stood at *)
(* (x, y) in an affected column stands at (x, y - e), e being the number   *)
(* of cells of column x below y that were empty when the traversal had     *)
(* finished; the cells above the survivors are empty.  So a removed run    *)
(* y = 0..k-1 drops everything above by k and leaves the top k empty.      *)
C5_DropByEmptiesBelow ==
  Shifted =>
    \A x \in AffectedColumns :
      /\ \A y \in 0..(height - 1) :
           afterRemove[x][y].colour # null =>
             grid[x][y - EmptiesBelow(afterRemove, x, y)].colour
               = afterRemove[x][y].colour
      /\ \A y \in 0..(height - 1) :
           y >= height - EmptiesBelow(afterRemove, x, height) =>
             grid[x][y].colour = null

(* the run y = 0..1 of a column is removed and two cells above drop by two *)
C5_Witness ==
  /\ Completed
  /\ height = 4
  /\ \E x \in AffectedColumns :
       /\ {y \in 0..(height - 1) : <<x, y>> \in Removed} = {0, 1}
       /\ before[x][2].colour # null
       /\ before[x][3].colour # null
       /\ before[x][2].colour # before[x][3].colour
       /\ grid[x][0].colour = before[x][2].colour
       /\ grid[x][1].colour = before[x][3].colour
       /\ grid[x][2].colour = null
       /\ grid[x][3].colour = null

----------------------------------------------------------------------------
(* C6: a column that holds no removed cell is cell for cell what it was    *)
(* before the click, at every point from the traversal to the end of the   *)
(* click, however many columns the removed component spans.                *)
C6_OtherColumnsUntouched ==
  Traversed =>
    \A x \in (0..(width - 1)) \ AffectedColumns : grid[x] = before[x]

(* the component spans two columns; a third, untouched one has a gap       *)
C6_Witness ==
  /\ Completed
  /\ Cardinality(AffectedColumns) >= 2
  /\ \E x \in (0..(width - 1)) \ AffectedColumns :
       /\ ~EmptiesOnTop(grid, x)
       /\ grid[x] = before[x]
  /\ grid # afterRemove

----------------------------------------------------------------------------
(* what the document shows for the cells of g *)
DisplayShows(children, g) ==
  /\ Len(BlockElements(children)) = width * height
  /\ \A c \in Cells :
       getElementById(children, BlockId(c[1], c[2])).background
         = StyleBackground(ColourAt(g, c))

(* new BlockGrid() with no arguments, every block taking the same colour *)
DefaultGrid ==
  constructor(<<>>, [x \in 0..(DefaultWidth - 1) |->
                       [y \in 0..(DefaultHeight - 1) |-> Palette[1]]])

(* g has exactly w columns of exactly h cells, each carrying its position *)
WellShaped(g, w, h) ==
  /\ DOMAIN g = 0..(w - 1)
  /\ \A x \in 0..(w - 1) :
       /\ DOMAIN g[x] = 0..(h - 1)
       /\ \A y \in 0..(h - 1) : g[x][y].x = x /\ g[x][y].y = y

----------------------------------------------------------------------------
(* C7: new BlockGrid(W, H), W and H positive and not necessarily equal,    *)
(* yields exactly W columns of exactly H cells each, the cell at           *)
(* grid[x][y] carrying the coordinates (x, y); without arguments the grid  *)
(* is 10 by 10.                                                            *)
C7_ConstructedShape ==
  pc = "constructed" =>
    /\ width = args[1]
    /\ height = args[2]
    /\ WellShaped(grid, args[1], args[2])
    /\ DefaultGrid.width = 10
    /\ DefaultGrid.height = 10
    /\ WellShaped(DefaultGrid.grid, 10, 10)

(* a freshly constructed grid that is not square *)
C7_Witness ==
  /\ pc = "constructed"
  /\ args = <<2, 3>>
  /\ Length(grid) = 2
  /\ Length(grid[1]) = 3
  /\ grid[1][2].x = 1
  /\ grid[1][2].y = 2
  /\ \A c \in Cells : ColourAt(grid, c) \in COLOURS

----------------------------------------------------------------------------
(* C8: after a click on a non-empty block of the top row of column x,      *)
(* grid[x][height-1] is empty and the re-rendered element of that position *)
(* shows no background; the same holds of the top cell of every column     *)
(* that held a removed cell.                                               *)
C8_TopOfAffectedColumnEmpty ==
  Completed =>
    \A x \in AffectedColumns \cup {block.x} :
      /\ grid[x][height - 1].colour = null
      /\ getElementById(display, BlockId(x, height - 1)).background = ""

(* the top block of a column was clicked and the block under it survives   *)
C8_Witness ==
  /\ Completed
  /\ height >= 2
  /\ block.y = height - 1
  /\ Removed = {Seed}
  /\ grid[block.x][0].colour # null
  /\ getElementById(display, BlockId(block.x, block.y)).background = ""
  /\ getElementById(display, BlockId(block.x, 0)).background # ""

----------------------------------------------------------------------------
(* C9: a click on a non-empty cell runs traversal/removal, compaction,     *)
(* clearing of the display and render in this order and nothing else; the  *)
(* grid changes in the first two only, the display in the last two only;   *)
(* until it is cleared the display shows the grid as it was before the     *)
(* click, never the removed-but-unsettled grid, and when the click is      *)
(* complete it shows the colours of the grid.                              *)
C9_PhasesInOrder ==
  [][/\ (pc = "idle" /\ block'.colour # null) => pc' = "removeConnectedBlocks"
     /\ pc = "removeConnectedBlocks" =>
          pc' = "shiftBlocksDownward" /\ display' = display
     /\ pc = "shiftBlocksDownward" =>
          pc' = "resetGrid" /\ display' = display
     /\ pc = "resetGrid" =>
          pc' = "render" /\ display' = <<>> /\ grid' = grid
     /\ pc = "render" =>
          /\ pc' = "idle"
          /\ grid' = grid
          /\ grid = shiftBlocksDownward(afterRemove, removedBlockArray)
     /\ pc' \in {"removeConnectedBlocks", "shiftBlocksDownward", "resetGrid"} =>
          DisplayShows(display', before')
     /\ pc' = "render" => display' = <<>>
     /\ pc' = "idle" => DisplayShows(display', grid')]_vars

(* a completed click whose compaction moved a block, shown as it ended *)
C9_Witness ==
  /\ Completed
  /\ afterRemove # before
  /\ grid # afterRemove
  /\ DisplayShows(display, grid)
  /\ ~DisplayShows(display, afterRemove)

----------------------------------------------------------------------------
(* C11: in every state that clicks can reach the grid has the width and    *)
(* height it was constructed with and every position (x, y) holds a cell   *)
(* carrying the coordinates (x, y): removal and compaction change colour   *)
(* attributes only and never move, drop or add cells.                      *)
C11_ShapeAndCoordinatesFixed ==
  /\ width = args[1]
  /\ height = args[2]
  /\ WellShaped(grid, args[1], args[2])
  /\ WellShaped(before, args[1], args[2])

(* a click has removed blocks and compaction has moved colours down *)
C11_Witness ==
  /\ Completed
  /\ grid # afterRemove
  /\ Cardinality(AffectedColumns) >= 2
  /\ WellShaped(grid, width, height)

----------------------------------------------------------------------------
NonEmptyCount(g) == Cardinality({c \in Cells : ColourAt(g, c) # null})

(* how many cells of column x of g have the given colour *)
CountInColumn(g, x, colour) ==
  Cardinality({y \in 0..(height - 1) : g[x][y].colour = colour})

(* how many cells of column x the click removed *)
RemovedInColumn(x) ==
  Cardinality({c \in Component(before, Seed) : c[1] = x})

(* C18: a click never creates or duplicates a colour.  After a click on a  *)
(* non-empty cell the number of non-empty cells is the number before minus *)
(* the size of the removed component, which is at least one and holds the  *)
(* clicked cell; in every column the count of each colour is the count     *)
(* before minus the removed cells of that column; and no step after the    *)
(* first render increases the number of non-empty cells.                   *)
C18_ColoursOnlyDisappear ==
  [][/\ pc # "constructed" => NonEmptyCount(grid') <= NonEmptyCount(grid)
     /\ Shifted' =>
          /\ Seed' \in Removed'
          /\ Cardinality(Removed') = Cardinality(Component(before', Seed'))
          /\ NonEmptyCount(grid')
               = NonEmptyCount(before') - Cardinality(Component(before', Seed'))
          /\ \A x \in 0..(width - 1) :
               \A colour \in COLOURS :
                 CountInColumn(grid', x, colour)
                   = CountInColumn(before', x, colour)
                       - (IF colour = block'.colour THEN RemovedInColumn(x)' ELSE 0)]_vars

(* two or more cells went, and a cell of the same colour stayed and fell   *)
C18_Witness ==
  /\ Completed
  /\ Cardinality(Removed) >= 2
  /\ grid # afterRemove
  /\ \E x \in AffectedColumns :
       /\ CountInColumn(grid, x, block.colour) >= 1
       /\ CountInColumn(grid, x, block.colour)
            = CountInColumn(before, x, block.colour) - RemovedInColumn(x)
  /\ NonEmptyCount(grid) = NonEmptyCount(before) - Cardinality(Removed)

----------------------------------------------------------------------------
(* the longest removed list tried in place of the list of the click *)
MaxShiftList == 4

(* the lowest removed cell of column x *)
RemovedCellIn(x) ==
  CHOOSE c \in Removed : c[1] = x /\ \A d \in Removed : d[1] = x => c[2] <= d[2]

(* the removed lists of at most MaxShiftList entries that name exactly the *)
(* columns of the click's list, in any order and with repetitions          *)
ListsOverAffectedColumns ==
  LET lists == UNION {[1..n -> AffectedColumns] : n \in 1..MaxShiftList}
  IN  {[i \in DOMAIN L |-> RemovedCellIn(L[i])] :
         L \in {M \in lists : {M[i] : i \in DOMAIN M} = AffectedColumns}}

Reverse(seq) == [i \in 1..Len(seq) |-> seq[Len(seq) + 1 - i]]

(* C15: the grid that shiftBlocksDownward produces depends only on the set *)
(* of columns in the removed list: the list reversed, and every list that  *)
(* names the same columns in another order or several times, give the same *)
(* grid; and shifting a column whose empty cells are all on top changes    *)
(* nothing.                                                                *)
C15_ShiftDependsOnColumnSet ==
  /\ pc = "shiftBlocksDownward" =>
       /\ shiftBlocksDownward(grid, Reverse(removedBlockArray))
            = shiftBlocksDownward(grid, removedBlockArray)
       /\ \A L \in ListsOverAffectedColumns :
            shiftBlocksDownward(grid, L) = shiftBlocksDownward(grid, removedBlockArray)
  /\ \A x \in 0..(width - 1) :
       EmptiesOnTop(grid, x) => shiftBlocksDownward(grid, << <<x, 0>> >>) = grid

(* the list names one column twice and another once, a block has to fall,  *)
(* and a column with its empty cells on top is left as it is               *)
C15_Witness ==
  /\ pc = "shiftBlocksDownward"
  /\ Cardinality(AffectedColumns) >= 2
  /\ Len(removedBlockArray) > Cardinality(AffectedColumns)
  /\ shiftBlocksDownward(grid, removedBlockArray) # grid
  /\ \E x \in 0..(width - 1) :
       /\ EmptiesOnTop(grid, x)
       /\ grid[x][height - 1].colour = null
       /\ grid[x][0].colour # null

----------------------------------------------------------------------------
(* removeConnectedBlocks with the order of the neighbour offsets and the   *)
(* end of adjacentBlocks that is consumed (pop: stack, shift: queue) left  *)
(* open.                                                                   *)
TraverseStepIn(s, colour, directions, queue) ==
  LET n == Len(s.adjacentBlocks)
      next == IF queue THEN s.adjacentBlocks[1] ELSE s.adjacentBlocks[n]
      rest == IF queue THEN Tail(s.adjacentBlocks) ELSE SubSeq(s.adjacentBlocks, 1, n - 1)
      row == next[1]
      column == next[2]
      key == ParsedKey(row, column)
  IN  IF withinBoundaries(row, column) /\ key \notin s.parsedBlocks
        THEN IF checkBlockColour(s.grid, row, column, colour)
               THEN [grid |-> removeBlock(s.grid, row, column),
                     adjacentBlocks |->
                       rest \o [i \in 1..Len(directions) |->
                                  <<row + directions[i][1], column + directions[i][2]>>],
                     parsedBlocks |-> s.parsedBlocks \cup {key},
                     removedBlockArray |-> Append(s.removedBlockArray, <<row, column>>)]
               ELSE [s EXCEPT !.adjacentBlocks = rest,
                              !.parsedBlocks = s.parsedBlocks \cup {key}]
        ELSE [s EXCEPT !.adjacentBlocks = rest]

RECURSIVE TraverseLoopIn(_, _, _, _)
TraverseLoopIn(s, colour, directions, queue) ==
  IF Len(s.adjacentBlocks) > 0
    THEN TraverseLoopIn(TraverseStepIn(s, colour, directions, queue),
                        colour, directions, queue)
    ELSE s

removeConnectedBlocksIn(g, x, y, colour, directions, queue) ==
  TraverseLoopIn([grid |-> g,
                  adjacentBlocks |-> << <<x, y>> >>,
                  parsedBlocks |-> {},
                  removedBlockArray |-> <<>>], colour, directions, queue)

(* directionsArray in every order *)
DirectionOrders ==
  LET n == Len(directionsArray)
      perms == {p \in [1..n -> 1..n] : \A i, j \in 1..n : p[i] = p[j] => i = j}
  IN  {[i \in 1..n |-> directionsArray[p[i]]] : p \in perms}

(* C16: the removed set and the final grid of a click do not depend on the *)
(* order of traversal: with the four neighbour offsets in any order, and   *)
(* with the worklist taken as a stack or as a queue, the same cells are    *)
(* removed and the same grid results as in the click that ran.             *)
C16_TraversalOrderIrrelevant ==
  pc = "shiftBlocksDownward" =>
    \A directions \in DirectionOrders :
      \A queue \in BOOLEAN :
        LET r == removeConnectedBlocksIn(before, block.x, block.y, block.colour,
                                         directions, queue)
        IN  /\ {r.removedBlockArray[i] : i \in 1..Len(r.removedBlockArray)} = Removed
            /\ r.grid = grid
            /\ shiftBlocksDownward(r.grid, r.removedBlockArray)
                 = shiftBlocksDownward(grid, removedBlockArray)

(* a component of four or more cells over two columns, where another order *)
(* of traversal lists the removed cells in another order                   *)
C16_Witness ==
  /\ pc = "shiftBlocksDownward"
  /\ Cardinality(Removed) >= 4
  /\ Cardinality(AffectedColumns) >= 2
  /\ \E directions \in DirectionOrders :
       removeConnectedBlocksIn(before, block.x, block.y, block.colour,
                               directions, TRUE).removedBlockArray
         # removedBlockArray

----------------------------------------------------------------------------
(* A grid that is only constructed, rendered and clicked: no cell is ever  *)
(* recoloured from outside.                                                *)
NextFresh ==
  \/ FirstRender
  \/ BlockClicked
  \/ RemoveConnectedBlocks
  \/ ShiftBlocksDownward
  \/ ResetGrid
  \/ Render

SpecFresh == Init /\ [][NextFresh]_vars

(* C17: starting from a freshly constructed grid, all of whose cells are   *)
(* non-empty, after any sequence of completed clicks on any cells every    *)
(* column is settled: no empty cell lies below a non-empty cell.           *)
C17_SettledBetweenClicks ==
  pc \in {"constructed", "idle"} =>
    \A x \in 0..(width - 1) : EmptiesOnTop(grid, x)

(* a second removal, from a grid that already had empty cells, after which *)
(* blocks of two columns have fallen and some remain                       *)
C17_Witness ==
  /\ Completed
  /\ \E c \in Cells : ColourAt(before, c) = null
  /\ Cardinality(AffectedColumns) >= 2
  /\ grid # afterRemove
  /\ \E c \in Cells : ColourAt(grid, c) # null

----------------------------------------------------------------------------
(* a click on a cell that is not empty *)
ClickNonEmpty == BlockClicked /\ block'.colour # null

(* The grid is rendered, every loop iteration and every call of a started  *)
(* click is taken (the handler is synchronous and runs to its end), and a  *)
(* non-empty cell is clicked again and again as long as there is one.      *)
SpecLive ==
  /\ Init
  /\ [][NextSteps]_vars
  /\ WF_vars(FirstRender)
  /\ WF_vars(ClickNonEmpty)
  /\ WF_vars(TraverseBegin)
  /\ WF_vars(TraverseIter)
  /\ WF_vars(TraverseEnd)
  /\ WF_vars(ShiftBegin)
  /\ WF_vars(ShiftIter)
  /\ WF_vars(ShiftEnd)
  /\ WF_vars(ResetGrid)
  /\ WF_vars(Render)

AllEmpty == \A c \in Cells : ColourAt(grid, c) = null

(* C19: if a non-empty cell keeps being clicked while there is one, the    *)
(* grid becomes entirely empty and stays so under every later click.  It   *)
(* takes at most width*height clicks that change the grid: there are never *)
(* more than width*height non-empty cells and every completed click on a   *)
(* non-empty cell leaves fewer of them than before.                        *)
C19_EventuallyEmptyForGood ==
  /\ <>[]AllEmpty
  /\ [](NonEmptyCount(grid) <= width * height)
  /\ [][/\ (pc = "render" /\ pc' = "idle") =>
             NonEmptyCount(grid') < NonEmptyCount(before')
        /\ pc = "idle" => grid' = grid
        /\ (pc = "idle" /\ AllEmpty) => (AllEmpty' /\ pc' = "idle")]_vars

(* the last block has been clicked away and the empty grid is clicked      *)
C19_Witness ==
  /\ pc = "idle"
  /\ AllEmpty
  /\ width * height >= 4
  /\ block.x >= 0
  /\ block.colour = null
  /\ reclick

----------------------------------------------------------------------------
(* C12: blockClicked terminates.  Once removeConnectedBlocks is entered    *)
(* the click comes to rest: the work stack empties although neighbours are *)
(* pushed unfiltered, and shiftBlocksDownward returns (the phases between  *)
(* are passed in order, C9).  Every iteration of an inner while loop of    *)
(* shiftBlocksDownward raises currentRow by one, never beyond height - 1.  *)
C12_ClickTerminates ==
  /\ (pc = "removeConnectedBlocks") ~> (pc = "idle")
  /\ [][(/\ pc = "shiftBlocksDownward" /\ pc' = "shiftBlocksDownward"
         /\ loop # NoLoop /\ loop' # NoLoop
         /\ loop'.i = loop.i /\ loop'.yPos = loop.yPos) =>
          /\ loop'.currentRow = loop.currentRow + 1
          /\ loop'.currentRow <= height - 1]_vars

(* an inner while loop has carried currentRow from below up to the top row *)
(* after a traversal that pushed the neighbours of three or more cells     *)
C12_Witness ==
  /\ pc = "shiftBlocksDownward"
  /\ loop # NoLoop
  /\ loop.i <= Len(removedBlockArray)
  /\ loop.currentRow = height - 1
  /\ loop.currentRow >= loop.yPos + 2
  /\ Len(removedBlockArray) >= 3

----------------------------------------------------------------------------
(* how often cell c stands on the work stack *)
TimesOnStack(c) ==
  Cardinality({i \in 1..Len(loop.adjacentBlocks) : loop.adjacentBlocks[i] = c})

(* C13: during one traversal each coordinate of the grid is added to       *)
(* parsedBlocks, colour-checked and cleared at most once, however often it *)
(* is pushed; so the removed list never holds a coordinate twice and has   *)
(* at most width*height entries.                                           *)
C13_EachCellParsedOnce ==
  /\ (pc = "removeConnectedBlocks" /\ loop # NoLoop) =>
       \A c \in Cells :
         /\ loop.adds[c] <= 1
         /\ loop.checks[c] <= 1
         /\ loop.clears[c] <= 1
  /\ \A i, j \in 1..Len(removedBlockArray) :
       removedBlockArray[i] = removedBlockArray[j] => i = j
  /\ Len(removedBlockArray) <= width * height

(* a cell that was checked and cleared waits on the stack twice more *)
C13_Witness ==
  /\ pc = "removeConnectedBlocks"
  /\ loop # NoLoop
  /\ \E c \in Cells :
       /\ loop.checks[c] = 1
       /\ loop.clears[c] = 1
       /\ TimesOnStack(c) >= 2
  /\ Len(removedBlockArray) >= 3

----------------------------------------------------------------------------
(* C14: no step of a click reads or writes the colour of a cell outside    *)
(* [0, width) x [0, height), on square and on non-square grids: the cells  *)
(* that an iteration of either loop touches are cells of the grid, and no  *)
(* access throws.                                                          *)
C14_AccessesInBounds ==
  /\ pc # "TypeError"
  /\ loop # NoLoop => loop.touched \subseteq Cells

(* on a grid higher than wide the traversal is about to discard the cell   *)
(* (width, y), whose first coordinate is a valid second coordinate, and    *)
(* the cell it touched last is in the top row                              *)
C14_Witness ==
  /\ pc = "removeConnectedBlocks"
  /\ loop # NoLoop
  /\ width < height
  /\ Len(loop.adjacentBlocks) > 0
  /\ loop.adjacentBlocks[Len(loop.adjacentBlocks)][1] = width
  /\ \E c \in loop.touched : c[2] = height - 1

====
